---- MODULE Spec2Model ----
(***************************************************************************)
(* A model of lshca (src/lshca.py): the topology assembly done by          *)
(* HCAManager.__init__ / MlnxHCA, and the output engine's where-filter     *)
(* (Output.apply_where_output_filters).                                    *)
(***************************************************************************)
EXTENDS Integers, Sequences, FiniteSets, TLC

(***************************************************************************)
(* Bounds of the model.                                                    *)
(***************************************************************************)
\* number of bus addresses that "lspci -Dd 15b3:" lists
MaxBdf == 3
\* number of distinct serial numbers on the host
MaxSn == 2
\* number of adapter items appended to the Output object
MaxItems == 2
\* number of predicate strings given with -ow
MaxPreds == 2

\* addresses a physfn link may name: the listed ones, and one that lspci
\* does not list
Addresses == 1..(MaxBdf + 1)
\* the vfParent of a PF, "-"
NoParent == 0
SerialNumbers == 1..MaxSn
\* len(port_list) of a function: single- and dual-port functions
PortCounts == {1, 2}

VARIABLES
    mlnx_bdf_devices,   \* HCAManager.__init__: the list of MlnxBFDDevice objects
    mlnxHCAs,           \* HCAManager.mlnxHCAs: the list of MlnxHCA objects
    pc,                 \* where HCAManager.__init__ is
    idx,                \* position of the running for loop in mlnx_bdf_devices
    report,             \* the output_info() of the adapters, as display_hcas_info appends them
    where_output_filter,\* Config.where_output_filter: the predicate strings
    output,             \* Output.output: the report items, filtered in place
    output_filter,      \* apply_where_output_filters: the dict field -> regex
    todo,               \* the keys of output_filter the loop has not visited yet
    opc,                \* where Output.print_output is
    config,             \* the Config object: view, format and the two field lists
    output_order,       \* Output.output_order: the names of the fields to show
    column_width,       \* Output.column_width: field name -> width
    separator_len,      \* Output.separator_len
    printed,            \* the lines written to stdout
    args,               \* what process_arguments is given: --json, isatty, the tty override
    show_warnings_and_errors, \* Config.show_warnings_and_errors
    hw,                 \* what sysfs, lspci and mget_temp say of one device
    fields,             \* the fields of the MlnxBFDDevice under construction
    mpc,                \* where the construction of that device is
    cache,              \* DataSource.cache: cache key -> output
    calls,              \* the calls of exec_shell_cmd so far
    sysfs_ports,        \* per listed bus address, the number of entries under ports/
    port_count,         \* HCAManager.__init__: port_count of the probing loop
    mst_device_enabled, \* Config.mst_device_enabled
    mst_init_running,   \* MSTDevice.__init__: the local mst_init_running
    mst_raw_data,       \* MSTDevice.mst_raw_data of the device under construction
    mst_pc,             \* where MSTDevice.__init__ is
    constructed         \* the number of MSTDevice objects constructed so far

asmVars == <<mlnx_bdf_devices, mlnxHCAs, pc, idx>>
outVars == <<report, where_output_filter, output, output_filter, todo, opc>>
prtVars == <<config, output_order, column_width, separator_len, printed>>
\* the variables of the components that the assembly and the where-filter
\* do not touch
mrkVars == <<args, show_warnings_and_errors, hw, fields, mpc>>
cacheVars == <<cache, calls>>
probeVars == <<sysfs_ports, port_count>>
mstVars == <<mst_device_enabled, mst_init_running, mst_raw_data, mst_pc, constructed>>
auxVars == <<mrkVars, cacheVars, probeVars, mstVars>>
extVars == <<prtVars, auxVars>>
vars == <<mlnx_bdf_devices, mlnxHCAs, pc, idx,
          report, where_output_filter, output, output_filter, todo, opc,
          config, output_order, column_width, separator_len, printed,
          args, show_warnings_and_errors, hw, fields, mpc,
          cache, calls, sysfs_ports, port_count,
          mst_device_enabled, mst_init_running, mst_raw_data, mst_pc, constructed>>

\* the value of the variables of a component a specification leaves out
NotModelled == "not_modelled"
\* the components left out by a specification
AsmIdle ==
    /\ mlnx_bdf_devices = <<>>
    /\ mlnxHCAs = <<>>
    /\ pc = NotModelled
    /\ idx = 1
OutIdle ==
    /\ report = <<>>
    /\ where_output_filter = <<>>
    /\ output = <<>>
    /\ output_filter = <<>>
    /\ todo = {}
    /\ opc = NotModelled
MrkIdle ==
    /\ args = NotModelled
    /\ show_warnings_and_errors = TRUE
    /\ hw = NotModelled
    /\ fields = NotModelled
    /\ mpc = NotModelled
CacheIdle ==
    /\ cache = <<>>
    /\ calls = <<>>
ProbeIdle ==
    /\ sysfs_ports = <<>>
    /\ port_count = 1
MstIdle ==
    /\ mst_device_enabled = FALSE
    /\ mst_init_running = FALSE
    /\ mst_raw_data = NotModelled
    /\ mst_pc = NotModelled
    /\ constructed = 0
AuxIdle == MrkIdle /\ CacheIdle /\ ProbeIdle /\ MstIdle
\* the components left out by the assembly and by the where-filter alone
ExtIdle ==
    /\ AuxIdle
    /\ config = NotModelled
    /\ output_order = <<>>
    /\ column_width = <<>>
    /\ separator_len = 0
    /\ printed = <<>>

(***************************************************************************)
(* Helpers on sequences.                                                   *)
(***************************************************************************)
\* list.insert(i, x) for 0 <= i <= len(list); i is the 0-based python index
InsertAt(s, i, x) == SubSeq(s, 1, i) \o <<x>> \o SubSeq(s, i + 1, Len(s))

RECURSIVE Flatten(_)
Flatten(ss) == IF ss = <<>> THEN <<>> ELSE Head(ss) \o Flatten(Tail(ss))

(***************************************************************************)
(* Device records.  A PCI function (one bus address) gives one record per  *)
(* port; all records of a function share what sysfs and lspci say of the   *)
(* function.  sriov is the value of the MlnxBFDDevice.sriov property:      *)
(* "PF*" is a PF whose description says "Virtual Function" when warnings   *)
(* are shown.                                                              *)
(***************************************************************************)
Functions ==
    [sriov : {"PF", "PF*"}, vfParent : {NoParent}, sn : SerialNumbers, ports : PortCounts]
    \cup
    [sriov : {"VF"}, vfParent : Addresses, sn : SerialNumbers, ports : {1}]

\* Serial numbers are only ever compared for equality, so the lists of
\* functions are taken up to renaming of the serial numbers: a function has
\* a serial number seen before it in the list, or the next unused one.
CanonicalSerials(fs) ==
    \A b \in 1..Len(fs) : \A s \in 1..(fs[b].sn - 1) : \E j \in 1..(b - 1) : fs[j].sn = s

\* the records the port probing loop builds for bus address b (ports 1..len(port_list))
DevicesOf(b, f) ==
    [p \in 1..f.ports |->
        [bdf |-> b, port |-> p, sriov |-> f.sriov, vfParent |-> f.vfParent, sn |-> f.sn]]

\* the probing loop over mlnx_bdf_list
ProbeAll(fs) == Flatten([b \in 1..Len(fs) |-> DevicesOf(b, fs[b])])

IsPF(dev) == dev.sriov \in {"PF", "PF*"}

(***************************************************************************)
(* MlnxHCA                                                                 *)
(***************************************************************************)
\* MlnxHCA.__init__ that takes the PF's bus address for its serial number
MlnxHCA_KeyedByBdf(bfd_dev) ==
    IF IsPF(bfd_dev)
    THEN [raised |-> FALSE, sn |-> bfd_dev.bdf, hca_index |-> 0, bfd_devices |-> <<bfd_dev>>]
    ELSE [raised |-> TRUE, sn |-> bfd_dev.sn, hca_index |-> 0, bfd_devices |-> <<>>]

\* MlnxHCA.__init__: raises ValueError unless given a PF
MlnxHCA(bfd_dev) ==
    IF IsPF(bfd_dev)
    THEN [raised |-> FALSE, sn |-> bfd_dev.sn, hca_index |-> 0, bfd_devices |-> <<bfd_dev>>]
    ELSE [raised |-> TRUE, sn |-> bfd_dev.sn, hca_index |-> 0, bfd_devices |-> <<>>]

\* the loop of add_bdf_dev with insert(i, ...) for insert(i+1, ...): the new
\* device goes before its parent
RECURSIVE InsertBeforeParents(_, _, _)
InsertBeforeParents(devs, new, i) ==
    IF i >= Len(devs) THEN devs
    ELSE IF devs[i + 1].bdf = new.vfParent
         THEN InsertBeforeParents(InsertAt(devs, i, new), new, i + 2)
         ELSE InsertBeforeParents(devs, new, i + 1)

\* the loop of add_bdf_dev over enumerate(self.bfd_devices); the list grows
\* while it is walked, i is the 0-based position
RECURSIVE InsertAfterParents(_, _, _)
InsertAfterParents(devs, new, i) ==
    IF i >= Len(devs) THEN devs
    ELSE IF devs[i + 1].bdf = new.vfParent
         THEN InsertAfterParents(InsertAt(devs, i + 1, new), new, i + 1)
         ELSE InsertAfterParents(devs, new, i + 1)

\* add_bdf_dev that appends every device, VF or not
add_bdf_dev_AppendOnly(hca, new_bfd_dev) ==
    [hca EXCEPT !.bfd_devices = Append(hca.bfd_devices, new_bfd_dev)]

\* MlnxHCA.add_bdf_dev
add_bdf_dev(hca, new_bfd_dev) ==
    IF new_bfd_dev.sriov = "VF" /\ new_bfd_dev.vfParent # NoParent
    THEN [hca EXCEPT !.bfd_devices = InsertAfterParents(hca.bfd_devices, new_bfd_dev, 0)]
    ELSE [hca EXCEPT !.bfd_devices = Append(hca.bfd_devices, new_bfd_dev)]

\* HCAManager.get_hca_by_sn: the position of the first adapter with this
\* serial number, 0 for None
get_hca_by_sn(hcas, sn) ==
    IF \E k \in 1..Len(hcas) : hcas[k].sn = sn
    THEN CHOOSE k \in 1..Len(hcas) : hcas[k].sn = sn /\ \A j \in 1..(k - 1) : hcas[j].sn # sn
    ELSE 0

(***************************************************************************)
(* HCAManager.__init__                                                     *)
(***************************************************************************)
Init ==
    /\ \E n \in 0..MaxBdf : \E fs \in [1..n -> Functions] :
          /\ \A b \in 1..n : fs[b].vfParent # b
          /\ CanonicalSerials(fs)
          /\ mlnx_bdf_devices = ProbeAll(fs)
    /\ mlnxHCAs = <<>>
    /\ pc = "pass1"
    /\ idx = 1
    /\ report = <<>>
    /\ where_output_filter = <<>>
    /\ output = <<>>
    /\ output_filter = <<>>
    /\ todo = {}
    /\ opc = NotModelled
    /\ ExtIdle

\* pass 1, a device that is no PF: nothing is done
Pass1Skip ==
    /\ pc = "pass1"
    /\ idx <= Len(mlnx_bdf_devices)
    /\ ~IsPF(mlnx_bdf_devices[idx])
    /\ idx' = idx + 1
    /\ UNCHANGED <<mlnx_bdf_devices, mlnxHCAs, pc, outVars, extVars>>

\* pass 1, a PF whose serial number an adapter already has: it is added to
\* every adapter with that serial number
Pass1Add ==
    /\ pc = "pass1"
    /\ idx <= Len(mlnx_bdf_devices)
    /\ LET bdf_dev == mlnx_bdf_devices[idx] IN
          /\ IsPF(bdf_dev)
          /\ \E k \in 1..Len(mlnxHCAs) : mlnxHCAs[k].sn = bdf_dev.sn
          /\ mlnxHCAs' = [k \in 1..Len(mlnxHCAs) |->
                             IF mlnxHCAs[k].sn = bdf_dev.sn
                             THEN add_bdf_dev(mlnxHCAs[k], bdf_dev)
                             ELSE mlnxHCAs[k]]
    /\ idx' = idx + 1
    /\ UNCHANGED <<mlnx_bdf_devices, pc, outVars, extVars>>

\* Pass1Create with hca_index = len(self.mlnxHCAs), taken after the append
\* of the earlier adapters only: the index starts at 0
Pass1Create_IndexFromZero ==
    /\ pc = "pass1"
    /\ idx <= Len(mlnx_bdf_devices)
    /\ LET bdf_dev == mlnx_bdf_devices[idx] IN
          /\ IsPF(bdf_dev)
          /\ ~ \E k \in 1..Len(mlnxHCAs) : mlnxHCAs[k].sn = bdf_dev.sn
          /\ ~ MlnxHCA(bdf_dev).raised
          /\ mlnxHCAs' = Append(mlnxHCAs,
                                [MlnxHCA(bdf_dev) EXCEPT !.hca_index = Len(mlnxHCAs)])
    /\ idx' = idx + 1
    /\ UNCHANGED <<mlnx_bdf_devices, pc, outVars, extVars>>

\* pass 1, a PF with a new serial number: a new adapter with the next index
Pass1Create ==
    /\ pc = "pass1"
    /\ idx <= Len(mlnx_bdf_devices)
    /\ LET bdf_dev == mlnx_bdf_devices[idx] IN
          /\ IsPF(bdf_dev)
          /\ ~ \E k \in 1..Len(mlnxHCAs) : mlnxHCAs[k].sn = bdf_dev.sn
          /\ ~ MlnxHCA(bdf_dev).raised
          /\ mlnxHCAs' = Append(mlnxHCAs,
                                [MlnxHCA(bdf_dev) EXCEPT !.hca_index = Len(mlnxHCAs) + 1])
    /\ idx' = idx + 1
    /\ UNCHANGED <<mlnx_bdf_devices, pc, outVars, extVars>>

\* the first loop is over: the second loop starts
Pass1End ==
    /\ pc = "pass1"
    /\ idx > Len(mlnx_bdf_devices)
    /\ pc' = "pass2"
    /\ idx' = 1
    /\ UNCHANGED <<mlnx_bdf_devices, mlnxHCAs, outVars, extVars>>

\* position in mlnx_bdf_devices of the first device at bus address a, 0 if none
FindParent(a) ==
    IF \E k \in 1..Len(mlnx_bdf_devices) : mlnx_bdf_devices[k].bdf = a
    THEN CHOOSE k \in 1..Len(mlnx_bdf_devices) :
            /\ mlnx_bdf_devices[k].bdf = a
            /\ \A j \in 1..(k - 1) : mlnx_bdf_devices[j].bdf # a
    ELSE 0

\* pass 2, a device that is no VF: nothing is done
Pass2Skip ==
    /\ pc = "pass2"
    /\ idx <= Len(mlnx_bdf_devices)
    /\ mlnx_bdf_devices[idx].sriov # "VF"
    /\ idx' = idx + 1
    /\ UNCHANGED <<mlnx_bdf_devices, mlnxHCAs, pc, outVars, extVars>>

\* pass 2, a VF whose parent address no device of the list has: the inner
\* loop ends without a match and nothing is done
Pass2NoParent ==
    /\ pc = "pass2"
    /\ idx <= Len(mlnx_bdf_devices)
    /\ mlnx_bdf_devices[idx].sriov = "VF"
    /\ FindParent(mlnx_bdf_devices[idx].vfParent) = 0
    /\ idx' = idx + 1
    /\ UNCHANGED <<mlnx_bdf_devices, mlnxHCAs, pc, outVars, extVars>>

\* pass 2, a VF whose parent device is found and has an adapter
Pass2Attach ==
    /\ pc = "pass2"
    /\ idx <= Len(mlnx_bdf_devices)
    /\ LET bdf_dev == mlnx_bdf_devices[idx]
           p == FindParent(bdf_dev.vfParent)
       IN  /\ bdf_dev.sriov = "VF"
           /\ p # 0
           /\ LET h == get_hca_by_sn(mlnxHCAs, mlnx_bdf_devices[p].sn) IN
                 /\ h # 0
                 /\ mlnxHCAs' = [mlnxHCAs EXCEPT ![h] = add_bdf_dev(mlnxHCAs[h], bdf_dev)]
    /\ idx' = idx + 1
    /\ UNCHANGED <<mlnx_bdf_devices, pc, outVars, extVars>>

\* pass 2, a VF whose parent device is found and has no adapter: the
\* exception "This device has no parent PF" ends the construction
Pass2Raise ==
    /\ pc = "pass2"
    /\ idx <= Len(mlnx_bdf_devices)
    /\ LET bdf_dev == mlnx_bdf_devices[idx]
           p == FindParent(bdf_dev.vfParent)
       IN  /\ bdf_dev.sriov = "VF"
           /\ p # 0
           /\ get_hca_by_sn(mlnxHCAs, mlnx_bdf_devices[p].sn) = 0
    /\ pc' = "raised"
    /\ UNCHANGED <<mlnx_bdf_devices, mlnxHCAs, idx, outVars, extVars>>

\* the second loop is over: the constructor returns
Pass2End ==
    /\ pc = "pass2"
    /\ idx > Len(mlnx_bdf_devices)
    /\ pc' = "done"
    /\ UNCHANGED <<mlnx_bdf_devices, mlnxHCAs, idx, outVars, extVars>>

Next ==
    \/ Pass1Skip
    \/ Pass1Add
    \/ Pass1Create
    \/ Pass1End
    \/ Pass2Skip
    \/ Pass2NoParent
    \/ Pass2Attach
    \/ Pass2Raise
    \/ Pass2End

Spec == Init /\ [][Next]_vars

(***************************************************************************)
(* Properties of the assembly.                                             *)
(***************************************************************************)
Devices == {mlnx_bdf_devices[k] : k \in 1..Len(mlnx_bdf_devices)}
VFs == {d \in Devices : d.sriov = "VF"}
PFs == {d \in Devices : IsPF(d)}
\* the VF's parent address is the bus address of a PF of the list
HasParentPF(vf) == \E p \in PFs : p.bdf = vf.vfParent
\* the places <<k, i>> where device d sits: adapter k, position i
Places(d) ==
    {<<k, i>> \in (1..Len(mlnxHCAs)) \X (1..(2 * Len(mlnx_bdf_devices))) :
        i <= Len(mlnxHCAs[k].bfd_devices) /\ mlnxHCAs[k].bfd_devices[i] = d}
\* the adapter positions whose adapter holds a record of the PF at address a
HoldersOf(a) ==
    {k \in 1..Len(mlnxHCAs) :
        \E i \in 1..Len(mlnxHCAs[k].bfd_devices) :
            IsPF(mlnxHCAs[k].bfd_devices[i]) /\ mlnxHCAs[k].bfd_devices[i].bdf = a}
\* the serial numbers of the PFs among the first n devices, in the order of
\* their first appearance
RECURSIVE PFSerialsInOrder(_)
PFSerialsInOrder(n) ==
    IF n = 0 THEN <<>>
    ELSE LET before == PFSerialsInOrder(n - 1)
             d == mlnx_bdf_devices[n]
         IN  IF IsPF(d) /\ ~ \E j \in 1..Len(before) : before[j] = d.sn
             THEN Append(before, d.sn)
             ELSE before

\* C1, as stated: after assembly every VF whose parent PF was discovered
\* sits in the adapter record that holds its parent PF, at the position
\* immediately following that PF, and nowhere else.
C1_VFImmediatelyAfterPF ==
    pc = "done" =>
        \A vf \in VFs : HasParentPF(vf) =>
            /\ Places(vf) # {}
            /\ \A pl \in Places(vf) :
                  LET devs == mlnxHCAs[pl[1]].bfd_devices IN
                     /\ pl[2] > 1
                     /\ IsPF(devs[pl[2] - 1])
                     /\ devs[pl[2] - 1].bdf = vf.vfParent

\* C1, amended: after assembly every VF whose parent PF was discovered
\* occurs in the adapter record that holds its parent PF and in no other,
\* and each occurrence follows a record of the parent PF with nothing but VF
\* records between the two (so never before the PF); it is next to the PF
\* only as long as no later VF has been inserted there.
C1_VFAfterParentPF ==
    pc = "done" =>
        \A vf \in VFs : HasParentPF(vf) =>
            /\ Places(vf) # {}
            /\ \A pl \in Places(vf) :
                  LET devs == mlnxHCAs[pl[1]].bfd_devices IN
                     /\ pl[1] \in HoldersOf(vf.vfParent)
                     /\ \E j \in 1..(pl[2] - 1) :
                           /\ IsPF(devs[j])
                           /\ devs[j].bdf = vf.vfParent
                           /\ \A m \in (j + 1)..(pl[2] - 1) : devs[m].sriov = "VF"

\* C1, reached: an adapter holds a PF followed by two VFs of that PF
C1_Witness ==
    /\ pc = "done"
    /\ \E k \in 1..Len(mlnxHCAs) :
          LET devs == mlnxHCAs[k].bfd_devices IN
          \E i \in 1..(Len(devs) - 2) :
             /\ IsPF(devs[i])
             /\ devs[i + 1].sriov = "VF" /\ devs[i + 1].vfParent = devs[i].bdf
             /\ devs[i + 2].sriov = "VF" /\ devs[i + 2].vfParent = devs[i].bdf

\* C2, as stated: assembly never completes while a VF's parent address is
\* the bus address of no discovered PF.
C2_OrphanVFAborts ==
    pc = "done" => \A vf \in VFs : HasParentPF(vf)

\* C22, as stated: whenever the assembly completes without error, every
\* device record that was constructed (PF or VF, any port) is exactly once
\* in the device sequences of all adapter records together: none is lost
\* and none is there twice.
C22_EachRecordExactlyOnce ==
    pc = "done" => \A dev \in Devices : Cardinality(Places(dev)) = 1

\* C3: once pass 1 is over there is exactly one adapter record per serial
\* number of a PF, and every PF record (every port of a multi-port PF) is in
\* exactly one adapter record, the one with its serial number, exactly once.
C3_PFsGroupedBySerial ==
    pc # "pass1" =>
        /\ \A pf \in PFs : Cardinality({k \in 1..Len(mlnxHCAs) : mlnxHCAs[k].sn = pf.sn}) = 1
        /\ \A k \in 1..Len(mlnxHCAs) : \E pf \in PFs : pf.sn = mlnxHCAs[k].sn
        /\ \A pf \in PFs :
              /\ Cardinality(Places(pf)) = 1
              /\ \A pl \in Places(pf) : mlnxHCAs[pl[1]].sn = pf.sn

\* C3, reached: a dual-port PF and a single-port PF sharing one serial
\* number gave one adapter record with three device records and index 1
C3_Witness ==
    /\ pc = "done"
    /\ Len(mlnxHCAs) = 1
    /\ mlnxHCAs[1].hca_index = 1
    /\ Len(mlnxHCAs[1].bfd_devices) = 3
    /\ \E a, b \in 1..MaxBdf :
          /\ a # b
          /\ {<<d.bdf, d.port>> : d \in PFs} = {<<a, 1>>, <<a, 2>>, <<b, 1>>}
          /\ \A i \in 1..3 : IsPF(mlnxHCAs[1].bfd_devices[i])

\* C4: in every state of the assembly every adapter record has a device
\* record, and its first is the PF it was constructed from (the first PF of
\* the list with its serial number); constructing one from a VF raises.
C4_FoundingPFFirst ==
    /\ \A k \in 1..Len(mlnxHCAs) :
          LET devs == mlnxHCAs[k].bfd_devices IN
             /\ Len(devs) >= 1
             /\ IsPF(devs[1])
             /\ devs[1].sn = mlnxHCAs[k].sn
             /\ \E n \in 1..Len(mlnx_bdf_devices) :
                   /\ mlnx_bdf_devices[n] = devs[1]
                   /\ \A j \in 1..(n - 1) :
                         ~ (IsPF(mlnx_bdf_devices[j]) /\ mlnx_bdf_devices[j].sn = devs[1].sn)
    /\ \A vf \in VFs : MlnxHCA(vf).raised
    /\ \A pf \in PFs : ~ MlnxHCA(pf).raised

\* C4, reached: pass 2 has inserted a VF into an adapter record, and the PF
\* is still first
C4_Witness ==
    /\ pc = "pass2"
    /\ \E k \in 1..Len(mlnxHCAs) :
          /\ Len(mlnxHCAs[k].bfd_devices) >= 2
          /\ IsPF(mlnxHCAs[k].bfd_devices[1])
          /\ mlnxHCAs[k].bfd_devices[2].sriov = "VF"

\* C5: the k-th adapter record has index k, the adapter records are those of
\* the serial numbers of the PFs seen so far in pass 1, in the order they
\* were first met; after pass 1 they are those of all PFs, whatever pass 2
\* does.
C5_IndexIsDiscoveryOrder ==
    /\ \A k \in 1..Len(mlnxHCAs) : mlnxHCAs[k].hca_index = k
    /\ [k \in 1..Len(mlnxHCAs) |-> mlnxHCAs[k].sn]
          = PFSerialsInOrder(IF pc = "pass1" THEN idx - 1 ELSE Len(mlnx_bdf_devices))

\* C5, reached: assembly is done with two adapter records, the second of
\* which got a VF in pass 2
C5_Witness ==
    /\ pc = "done"
    /\ Len(mlnxHCAs) = 2
    /\ \E i \in 1..Len(mlnxHCAs[2].bfd_devices) : mlnxHCAs[2].bfd_devices[i].sriov = "VF"

(***************************************************************************)
(* The output engine: Output.apply_where_output_filters.                   *)
(*                                                                         *)
(* A string is a sequence of tokens: a predicate string is made of field   *)
(* names, "=" and the characters of a regex, a field's value is made of    *)
(* characters.  A regex is a sequence of literal characters that may end   *)
(* with "$".                                                               *)
(***************************************************************************)
\* the value None: SYSFSDevice.operstate outside the roce view
NoneValue == <<"None">>
Views == {"system", "ib", "roce"}
\* a device's State, as characters
StateValues == {<<"a">>, <<"a", "d">>}
\* number of device records of an adapter item
DeviceCounts == {1, 2}

\* the MlnxHCA.hca_index property: "#" + str(self._hca_index)
hca_index(k) == <<"#", ToString(k)>>

\* MlnxBFDDevice.output_info: the device-level mapping (two of its fields)
DeviceMaps(view) ==
    [State : StateValues, Operstate : {IF view = "roce" THEN <<"a">> ELSE NoneValue}]

\* MlnxHCA.output_info of the k-th adapter: the adapter-level mapping (one
\* of its fields) and the device-level mappings
ItemsAt(k, view) ==
    [hca_info : {[Dev |-> hca_index(k)]},
     bdf_devices : UNION {[1..m -> DeviceMaps(view)] : m \in DeviceCounts}]

\* what display_hcas_info appends to the Output object
Reports(view) ==
    UNION {{r \in [1..n -> UNION {ItemsAt(k, view) : k \in 1..n}] :
               \A k \in 1..n : r[k] \in ItemsAt(k, view)} : n \in 0..MaxItems}

\* the predicate string field=regex
Pred(field, regex) == <<field, "=">> \o regex
PredStrings ==
    {Pred("State", r) : r \in {<<"a">>, <<"a", "d">>, <<"a", "$">>}}
    \cup {Pred("Dev", <<"#", "1">>), Pred("Operstate", <<"a">>), Pred("Foo", <<"a">>)}
    \cup {<<"State">>, <<"State", "=", "a", "=", "a">>}
Filters == UNION {[1..n -> PredStrings] : n \in 0..MaxPreds}

\* item.split("=")
RECURSIVE Split(_)
Split(s) ==
    IF \E i \in 1..Len(s) : s[i] = "="
    THEN LET i == CHOOSE i \in 1..Len(s) : s[i] = "=" /\ \A j \in 1..(i - 1) : s[j] # "="
         IN  <<SubSeq(s, 1, i - 1)>> \o Split(SubSeq(s, i + 1, Len(s)))
    ELSE <<s>>

\* dict(pairs): a later pair with the same key replaces the earlier one
RECURSIVE DictOf(_)
DictOf(pairs) ==
    IF pairs = <<>> THEN <<>>
    ELSE LET n == Len(pairs)
             d == DictOf(SubSeq(pairs, 1, n - 1))
         IN  [k \in DOMAIN d \cup {pairs[n][1]} |-> IF k = pairs[n][1] THEN pairs[n][2] ELSE d[k]]

\* ParseFilter that leaves out the strings that do not split in two
ParseFilter_SkipMalformed(filter) ==
    LET TwoParts(x) == Len(Split(x)) = 2
        good == SelectSeq(filter, TwoParts)
    IN  [raised |-> FALSE, dict |-> DictOf([i \in 1..Len(good) |-> Split(good[i])])]

\* dict(item.split("=") for item in where_output_filter): ValueError unless
\* every split gives two parts
ParseFilter(filter) ==
    LET parts == [i \in 1..Len(filter) |-> Split(filter[i])] IN
    IF \E i \in 1..Len(filter) : Len(parts[i]) # 2
    THEN [raised |-> TRUE, dict |-> <<>>]
    ELSE [raised |-> FALSE, dict |-> DictOf(parts)]

\* re.match(regex, value) from position i of the regex and j of the value:
\* a match starts at the beginning of the value and may end anywhere
RECURSIVE MatchAt(_, _, _, _)
MatchAt(regex, i, value, j) ==
    IF i > Len(regex) THEN TRUE
    ELSE IF regex[i] = "$" THEN j > Len(value) /\ MatchAt(regex, i + 1, value, j)
    ELSE j <= Len(value) /\ value[j] = regex[i] /\ MatchAt(regex, i + 1, value, j + 1)

\* re.match with the regex anchored at the end of the value too
ReMatch_Whole(regex, value) == MatchAt(regex \o <<"$">>, 1, value, 1)

\* re.match(regex, value) is not None, for a string value
ReMatch(regex, value) == MatchAt(regex, 1, value, 1)

\* filter_key in mapping
Carries(mapping, key) == Len(key) = 1 /\ key[1] \in DOMAIN mapping
ValueOf(mapping, key) == mapping[key[1]]

\* list.remove(x): the first element equal to x goes
RemoveFirst(s, x) ==
    IF \E i \in 1..Len(s) : s[i] = x
    THEN LET i == CHOOSE i \in 1..Len(s) : s[i] = x /\ \A j \in 1..(i - 1) : s[j] # x
         IN  SubSeq(s, 1, i - 1) \o SubSeq(s, i + 1, Len(s))
    ELSE s

\* for x in xs: s.remove(x)
RECURSIVE RemoveEach(_, _)
RemoveEach(s, xs) ==
    IF xs = <<>> THEN s ELSE RemoveEach(RemoveFirst(s, Head(xs)), Tail(xs))

\* DevFails that takes a device without the field for a failing one
DevFails_AbsentFails(bdf_device, key, regex) ==
    ~(Carries(bdf_device, key) /\ ReMatch(regex, ValueOf(bdf_device, key)))

\* the test that puts a device into remove_bdf_list
DevFails(bdf_device, key, regex) ==
    Carries(bdf_device, key) /\ ~ReMatch(regex, ValueOf(bdf_device, key))

\* re.match raises TypeError on a value that is None
DevRaises(bdf_device, key) ==
    Carries(bdf_device, key) /\ ValueOf(bdf_device, key) = NoneValue

\* the device loops of one adapter item: remove_bdf_list and the removals
DropDevices(hca, key, regex) ==
    LET Fails(d) == DevFails(d, key, regex) IN
    [hca EXCEPT !.bdf_devices = RemoveEach(@, SelectSeq(@, Fails))]

\* HcaRemoved without the test of the adapter-level mapping
HcaRemoved_OnlyEmpty(hca, key, regex) == Len(hca.bdf_devices) = 0

\* the test that puts an adapter item into remove_hca_list
HcaRemoved(hca, key, regex) ==
    \/ Len(hca.bdf_devices) = 0
    \/ Carries(hca.hca_info, key) /\ ~ReMatch(regex, ValueOf(hca.hca_info, key))

\* one turn of "for filter_key in output_filter" that ends without an error
WherePassOutput(out, key, regex) ==
    LET dropped == [k \in 1..Len(out) |-> DropDevices(out[k], key, regex)]
        Removed(h) == HcaRemoved(h, key, regex)
    IN  RemoveEach(dropped, SelectSeq(dropped, Removed))

\* the first adapter item with a device on which re.match raises, 0 if none
FirstRaising(out, key) ==
    LET Raises(k) == \E i \in 1..Len(out[k].bdf_devices) : DevRaises(out[k].bdf_devices[i], key) IN
    IF \E k \in 1..Len(out) : Raises(k)
    THEN CHOOSE k \in 1..Len(out) : Raises(k) /\ \A j \in 1..(k - 1) : ~Raises(j)
    ELSE 0

\* self.output when the TypeError leaves the loops: the earlier items have
\* lost their failing devices, no item has been removed yet
WhereRaisedOutput(out, key, regex) ==
    [k \in 1..Len(out) |->
        IF k < FirstRaising(out, key) THEN DropDevices(out[k], key, regex) ELSE out[k]]

InitWhere ==
    /\ mlnx_bdf_devices = <<>>
    /\ mlnxHCAs = <<>>
    /\ pc = NotModelled
    /\ idx = 1
    /\ \E view \in Views : report \in Reports(view)
    /\ where_output_filter \in Filters
    /\ output = report
    /\ output_filter = <<>>
    /\ todo = {}
    /\ opc = "where"
    /\ ExtIdle

\* if not self.config.where_output_filter: return
WhereReturn ==
    /\ opc = "where"
    /\ where_output_filter = <<>>
    /\ opc' = "select"
    /\ UNCHANGED <<asmVars, report, where_output_filter, output, output_filter, todo, extVars>>

\* the dict of compiled regexes is built
WhereParse ==
    /\ opc = "where"
    /\ where_output_filter # <<>>
    /\ ~ParseFilter(where_output_filter).raised
    /\ output_filter' = ParseFilter(where_output_filter).dict
    /\ todo' = DOMAIN output_filter'
    /\ opc' = "where_loop"
    /\ UNCHANGED <<asmVars, report, where_output_filter, output, extVars>>

\* dict() raises ValueError
WhereValueError ==
    /\ opc = "where"
    /\ where_output_filter # <<>>
    /\ ParseFilter(where_output_filter).raised
    /\ opc' = "raised"
    /\ UNCHANGED <<asmVars, report, where_output_filter, output, output_filter, todo, extVars>>

\* one turn of "for filter_key in output_filter"; the order in which a dict
\* gives its keys is not the order of the predicate strings
WherePass ==
    /\ opc = "where_loop"
    /\ \E key \in todo :
          /\ FirstRaising(output, key) = 0
          /\ output' = WherePassOutput(output, key, output_filter[key])
          /\ todo' = todo \ {key}
    /\ UNCHANGED <<asmVars, report, where_output_filter, output_filter, opc, extVars>>

\* a turn in which re.match raises TypeError
WhereTypeError ==
    /\ opc = "where_loop"
    /\ \E key \in todo :
          /\ FirstRaising(output, key) # 0
          /\ output' = WhereRaisedOutput(output, key, output_filter[key])
    /\ opc' = "raised"
    /\ UNCHANGED <<asmVars, report, where_output_filter, output_filter, todo, extVars>>

\* every key has had its turn: apply_where_output_filters returns
WhereDone ==
    /\ opc = "where_loop"
    /\ todo = {}
    /\ opc' = "select"
    /\ UNCHANGED <<asmVars, report, where_output_filter, output, output_filter, todo, extVars>>

NextWhere ==
    \/ WhereReturn
    \/ WhereParse
    \/ WhereValueError
    \/ WherePass
    \/ WhereTypeError
    \/ WhereDone

SpecWhere == InitWhere /\ [][NextWhere]_vars

(***************************************************************************)
(* Properties of the where-filter.                                         *)
(***************************************************************************)
\* the string has no "="
HasNoEq(s) == \A i \in 1..Len(s) : s[i] # "="
\* the string is field=regex, with one "="
IsPredicate(s) == Cardinality({i \in 1..Len(s) : s[i] = "="}) = 1
EqAt(s) == CHOOSE i \in 1..Len(s) : s[i] = "="
FieldPart(s) == SubSeq(s, 1, EqAt(s) - 1)
RegexPart(s) == SubSeq(s, EqAt(s) + 1, Len(s))
\* a regex of literal characters with an optional final "$"
Anchored(regex) == regex # <<>> /\ regex[Len(regex)] = "$"
Literal(regex) == IF Anchored(regex) THEN SubSeq(regex, 1, Len(regex) - 1) ELSE regex
\* the regex matches a piece of the value that starts at its beginning
MatchesAtStart(regex, value) ==
    /\ Len(Literal(regex)) <= Len(value)
    /\ SubSeq(value, 1, Len(Literal(regex))) = Literal(regex)
    /\ Anchored(regex) => Len(value) = Len(Literal(regex))
\* the regex matches the whole value
MatchesWhole(regex, value) == value = Literal(regex)
\* a turn of the loop over output_filter has ended without an error
PassStep == opc = "where_loop" /\ opc' = "where_loop" /\ todo' # todo
\* the key of that turn
StepKey == CHOOSE key \in todo : key \notin todo'
\* the devices and items of self.output
OutputDevices(out) ==
    {out[k].bdf_devices[i] : <<k, i>> \in
        {<<k, i>> \in (1..Len(out)) \X (1..2) : i <= Len(out[k].bdf_devices)}}

\* C6, as stated (its conjunctive half): when the where-filter has run, a
\* device record or adapter item has survived only if it satisfies every
\* predicate given (on the fields it carries).
C6_SurvivorsSatisfyEveryPredicate ==
    opc = "select" =>
        \A n \in 1..Len(where_output_filter) :
            LET s == where_output_filter[n] IN
            IsPredicate(s) =>
                \A k \in 1..Len(output) :
                    /\ Carries(output[k].hca_info, FieldPart(s))
                          => MatchesAtStart(RegexPart(s), ValueOf(output[k].hca_info, FieldPart(s)))
                    /\ \A i \in 1..Len(output[k].bdf_devices) :
                          Carries(output[k].bdf_devices[i], FieldPart(s))
                              => MatchesAtStart(RegexPart(s),
                                                ValueOf(output[k].bdf_devices[i], FieldPart(s)))

C8_ItemRemovedIffEmptyOrMismatch ==
    [][PassStep =>
        LET key == StepKey
            regex == output_filter[key]
            Keeps(d) == ~Carries(d, key) \/ MatchesAtStart(regex, ValueOf(d, key))
            after == [k \in 1..Len(output) |->
                         [hca_info |-> output[k].hca_info,
                          bdf_devices |-> SelectSeq(output[k].bdf_devices, Keeps)]]
            Stays(item) ==
                /\ item.bdf_devices # <<>>
                /\ ~(Carries(item.hca_info, key)
                       /\ ~MatchesAtStart(regex, ValueOf(item.hca_info, key)))
        IN  output' = SelectSeq(after, Stays)
    ]_vars

\* C8, reached: State=ad has run on an item with the devices "ad" and "a"
\* and an item with a device "a" only: the first item is left with its "ad"
\* device, the second is gone
C8_Witness ==
    /\ opc = "select"
    /\ where_output_filter = <<Pred("State", <<"a", "d">>)>>
    /\ Len(report) = 2
    /\ Len(report[1].bdf_devices) = 2
    /\ report[1].bdf_devices[1].State = <<"a", "d">>
    /\ report[1].bdf_devices[2].State = <<"a">>
    /\ \A i \in 1..Len(report[2].bdf_devices) : report[2].bdf_devices[i].State = <<"a">>
    /\ Len(output) = 1
    /\ output[1].hca_info = report[1].hca_info
    /\ output[1].bdf_devices = <<report[1].bdf_devices[1]>>

\* C9: when a predicate string has no "=", the run never gets past the
\* construction of the dict: it raises there, with no device record and no
\* adapter item removed, and the field selection and the rendering are
\* never reached.
C9_MalformedPredicateRaisesFirst ==
    (\E n \in 1..Len(where_output_filter) : HasNoEq(where_output_filter[n])) =>
        /\ opc \in {"where", "raised"}
        /\ output = report
        /\ output_filter = <<>>
        /\ todo = {}

\* C9, reached: the run has raised on a filter that holds a string without
\* "=" after a predicate that would have removed a device
C9_Witness ==
    /\ opc = "raised"
    /\ where_output_filter = <<Pred("State", <<"a", "d">>), <<"State">>>>
    /\ \E d \in OutputDevices(report) : d.State = <<"a">>
    /\ output = report

\* C10: the turn of a predicate does not drop a device record that lacks
\* the field, does not remove an item on the ground of an adapter-level
\* mapping that lacks the field, and changes nothing when no mapping
\* carries the field; re.match raises only on a device that carries the
\* field.
C10_AbsentFieldRemovesNothing ==
    [][/\ PassStep =>
            LET key == StepKey
                Lacks(d) == ~Carries(d, key)
            IN  /\ \A j \in 1..Len(output') : \E k \in 1..Len(output) :
                      /\ output'[j].hca_info = output[k].hca_info
                      /\ SelectSeq(output'[j].bdf_devices, Lacks)
                            = SelectSeq(output[k].bdf_devices, Lacks)
                /\ \A k \in 1..Len(output) :
                      (/\ ~Carries(output[k].hca_info, key)
                       /\ SelectSeq(output[k].bdf_devices, Lacks) # <<>>)
                      => \E j \in 1..Len(output') : output'[j].hca_info = output[k].hca_info
                /\ (\A k \in 1..Len(output) :
                      /\ ~Carries(output[k].hca_info, key)
                      /\ \A i \in 1..Len(output[k].bdf_devices) : Lacks(output[k].bdf_devices[i]))
                      => output' = output
       /\ (opc = "where_loop" /\ opc' = "raised") =>
            \E key \in todo : \E d \in OutputDevices(output) : Carries(d, key)
    ]_vars

\* C10, reached: a filter on the field Foo, which no mapping carries, has
\* run and the report is as it was
C10_Witness ==
    /\ opc = "select"
    /\ where_output_filter = <<Pred("Foo", <<"a">>)>>
    /\ Len(report) = 2
    /\ output = report

\* C11, as stated: a where-filter made of predicates field=regex on fields
\* that the device mappings carry raises no error, in any view: each
\* predicate is matched against the field's string value.
C11_NoErrorOnCarriedField ==
    (/\ where_output_filter # <<>>
     /\ \A n \in 1..Len(where_output_filter) :
           /\ IsPredicate(where_output_filter[n])
           /\ \A d \in OutputDevices(report) : Carries(d, FieldPart(where_output_filter[n])))
    => opc # "raised"

(***************************************************************************)
(* Output.print_output: filter_out_data (the where-filter above, then the  *)
(* field selection), then the JSON dump or the table.                      *)
(*                                                                         *)
(* The items carry two adapter-level fields (Dev, SN) and three            *)
(* device-level fields (Net, State, Operstate); the lists of field names   *)
(* hold no name twice.                                                     *)
(***************************************************************************)
\* len(key) of the field names
NameLen == [Dev |-> 3, SN |-> 2, Net |-> 3, State |-> 5, Operstate |-> 9, Foo |-> 3]

\* Config.output_order_general, cut down to the fields of the items
output_order_general ==
    [system |-> <<"Dev", "SN", "Net", "State">>,
     ib     |-> <<"Dev", "SN", "Net", "State">>,
     roce   |-> <<"Dev", "SN", "Net", "State", "Operstate">>]

\* a device's Net, as characters
NetValues == {<<"e">>, <<"e", "t", "h", "0">>}

\* MlnxBFDDevice.output_info
PrintDeviceMaps(view) ==
    [Net : NetValues, State : StateValues,
     Operstate : {IF view = "roce" THEN <<"a">> ELSE NoneValue}]

\* MlnxHCA.output_info of the k-th adapter; the second adapter has one device
PrintItemsAt(k, view) ==
    [hca_info : {[Dev |-> hca_index(k), SN |-> <<"s", ToString(k)>>]},
     bdf_devices : UNION {[1..m -> PrintDeviceMaps(view)] :
                             m \in IF k = 1 THEN DeviceCounts ELSE {1}}]

\* what display_hcas_info appends to the Output object
PrintReports(view) ==
    UNION {{r \in [1..n -> UNION {PrintItemsAt(k, view) : k \in 1..n}] :
               \A k \in 1..n : r[k] \in PrintItemsAt(k, view)} : n \in {0, 1, 2}}

\* -ow
PrintFilters ==
    {<<>>,
     <<Pred("State", <<"a", "d">>)>>,
     <<Pred("SN", <<"s", "1">>), Pred("Net", <<"e">>)>>,
     <<Pred("Operstate", <<"a">>)>>,
     <<<<"State">>>>}

\* -o and -onot
Selections ==
    {[positive |-> <<>>, negative |-> <<>>],
     [positive |-> <<"Dev", "Net">>, negative |-> <<>>],
     [positive |-> <<"Net", "Operstate">>, negative |-> <<"Net">>],
     [positive |-> <<"SN", "Dev">>, negative |-> <<>>],
     [positive |-> <<>>, negative |-> <<"State", "Foo">>],
     [positive |-> <<>>, negative |-> <<"Dev", "SN", "Net">>]}

\* Config after process_arguments
Configs ==
    {[output_view |-> view, output_format |-> format,
      output_fields_filter_positive |-> sel.positive,
      output_fields_filter_negative |-> sel.negative] :
        view \in Views, format \in {"human_readable", "json"}, sel \in Selections}

Range(s) == {s[i] : i \in 1..Len(s)}

\* SelectedOrder in which a negative list is subtracted from the positive one
SelectedOrder_NegativeToo(order, positive, negative) ==
    IF Len(positive) > 0 THEN RemoveEach(positive, negative)
    ELSE IF Len(negative) > 0 THEN RemoveEach(order, negative)
    ELSE order

\* self.output_order after the first half of apply_select_output_filters
SelectedOrder(order, positive, negative) ==
    IF Len(positive) > 0 THEN positive
    ELSE IF Len(negative) > 0 THEN RemoveEach(order, negative)
    ELSE order

\* KeysRemoveList that takes one more key at every call: keys are removed
\* when a field of the order is still there
KeysRemoveList_OneMore(out, order) ==
    IF Len(out) > 0
    THEN LET keys == (DOMAIN out[1].hca_info) \cup (DOMAIN out[1].bdf_devices[1])
         IN  (keys \ Range(order))
                \cup (IF keys \cap Range(order) = {} THEN {}
                      ELSE {CHOOSE key \in keys \cap Range(order) : TRUE})
    ELSE {}

\* data_keys_remove_list: the keys of the first item that are not in the order
KeysRemoveList(out, order) ==
    IF Len(out) > 0
    THEN ((DOMAIN out[1].hca_info) \cup (DOMAIN out[1].bdf_devices[1])) \ Range(order)
    ELSE {}

\* Pop that leaves the key in the mapping, with the value None
Pop_SetsNone(mapping, keys) ==
    [f \in DOMAIN mapping |-> IF f \in keys THEN NoneValue ELSE mapping[f]]

\* mapping.pop(key, None) for every key of the list
Pop(mapping, keys) == [f \in (DOMAIN mapping) \ keys |-> mapping[f]]

\* self.output after the second half of apply_select_output_filters
SelectOutput(out, order) ==
    [k \in 1..Len(out) |->
        [hca_info |-> Pop(out[k].hca_info, KeysRemoveList(out, order)),
         bdf_devices |-> [i \in 1..Len(out[k].bdf_devices) |->
                             Pop(out[k].bdf_devices[i], KeysRemoveList(out, order))]]]

InitPrint ==
    /\ mlnx_bdf_devices = <<>>
    /\ mlnxHCAs = <<>>
    /\ pc = NotModelled
    /\ idx = 1
    /\ config \in Configs
    /\ report \in PrintReports(config.output_view)
    /\ where_output_filter \in PrintFilters
    /\ output = report
    /\ output_filter = <<>>
    /\ todo = {}
    /\ opc = "where"
    /\ output_order = output_order_general[config.output_view]
    /\ column_width = <<>>
    /\ separator_len = 0
    /\ printed = <<>>
    /\ AuxIdle

\* ApplySelect that works on the report as it was before the where-filter
ApplySelect_OnReport ==
    /\ opc = "select"
    /\ output_order' = SelectedOrder(output_order, config.output_fields_filter_positive,
                                     config.output_fields_filter_negative)
    /\ output' = SelectOutput(report, output_order')
    /\ opc' = "format"
    /\ UNCHANGED <<asmVars, report, where_output_filter, output_filter, todo,
                   config, column_width, separator_len, printed,
                   auxVars>>

\* apply_select_output_filters, called by filter_out_data after the where-filter
ApplySelect ==
    /\ opc = "select"
    /\ output_order' = SelectedOrder(output_order, config.output_fields_filter_positive,
                                     config.output_fields_filter_negative)
    /\ output' = SelectOutput(output, output_order')
    /\ opc' = "format"
    /\ UNCHANGED <<asmVars, report, where_output_filter, output_filter, todo,
                   config, column_width, separator_len, printed,
                   auxVars>>

\* the line [kind, item, cells, width] written to stdout
Line(kind, item, cells, width) ==
    [kind |-> kind, item |-> item, cells |-> cells, width |-> width]

\* print json.dumps(self.output, indent=4, sort_keys=True)
PrintJson ==
    /\ opc = "format"
    /\ config.output_format = "json"
    /\ printed' = <<Line("json", 0, output, 0)>>
    /\ opc' = "done"
    /\ UNCHANGED <<asmVars, report, where_output_filter, output, output_filter, todo,
                   config, output_order, column_width, separator_len,
                   auxVars>>

\* the device rows in the order the width loop visits them
Rows(out) == Flatten([k \in 1..Len(out) |-> out[k].bdf_devices])

\* WidthOfKey that keeps the width of the row visited last
WidthOfKey_LastRow(cw, data, key) ==
    IF Len(data[key]) > NameLen[key] THEN Len(data[key]) ELSE NameLen[key]

\* the width loop, one key of one row
WidthOfKey(cw, data, key) ==
    LET width == IF Len(data[key]) > NameLen[key] THEN Len(data[key]) ELSE NameLen[key]
    IN  IF key \notin DOMAIN cw \/ Len(data[key]) > cw[key] THEN width ELSE cw[key]

\* the width loop, one row: the keys of the row that are in output_order
WidthOfRow(cw, data, order) ==
    LET keys == (DOMAIN data) \cap Range(order)
    IN  [key \in (DOMAIN cw) \cup keys |->
            IF key \in keys THEN WidthOfKey(cw, data, key) ELSE cw[key]]

RECURSIVE WidthOfRows(_, _, _)
WidthOfRows(cw, rows, order) ==
    IF rows = <<>> THEN cw
    ELSE WidthOfRows(WidthOfRow(cw, Head(rows), order), Tail(rows), order)

\* len(data[key]) raises TypeError: the row has None under a key of output_order
RowRaises(data, order) ==
    \E key \in (DOMAIN data) \cap Range(order) : data[key] = NoneValue

MaxOf(S) == CHOOSE x \in S : \A y \in S : y <= x

\* hca_info_line_width after the loop: the largest len(key) + len(value) + 5
hca_info_line_width(out) ==
    MaxOf({0} \cup UNION {{NameLen[key] + Len(out[k].hca_info[key]) + 5 :
                              key \in DOMAIN out[k].hca_info} : k \in 1..Len(out)})

RECURSIVE SumOf(_, _)
SumOf(f, keys) ==
    IF keys = {} THEN 0
    ELSE LET key == CHOOSE key \in keys : TRUE IN f[key] + SumOf(f, keys \ {key})

\* bdf_device_line_width that counts three for every join of two columns
bdf_device_line_width_Joins(cw) ==
    SumOf(cw, DOMAIN cw) + (Cardinality(DOMAIN cw) - 1) * 3 - 2

\* bdf_device_line_width = sum(column_width.values()) + len(column_width)*3 - 2
bdf_device_line_width(cw) ==
    SumOf(cw, DOMAIN cw) + Cardinality(DOMAIN cw) * 3 - 2

\* the width pass and the separator length
Measure ==
    /\ opc = "format"
    /\ config.output_format = "human_readable"
    /\ \A i \in 1..Len(Rows(output)) : ~RowRaises(Rows(output)[i], output_order)
    /\ column_width' = WidthOfRows(column_width, Rows(output), output_order)
    /\ separator_len' =
          IF bdf_device_line_width(column_width') > hca_info_line_width(output)
          THEN bdf_device_line_width(column_width')
          ELSE hca_info_line_width(output)
    /\ opc' = "print"
    /\ UNCHANGED <<asmVars, report, where_output_filter, output, output_filter, todo,
                   config, output_order, printed,
                   auxVars>>

\* the width pass meets a value None: the rows before it have been measured,
\* and those keys of the row that the dict gave before the None one
MeasureTypeError ==
    /\ opc = "format"
    /\ config.output_format = "human_readable"
    /\ \E i \in 1..Len(Rows(output)) :
          /\ RowRaises(Rows(output)[i], output_order)
          /\ \A j \in 1..(i - 1) : ~RowRaises(Rows(output)[j], output_order)
          /\ \E done \in SUBSET {key \in (DOMAIN Rows(output)[i]) \cap Range(output_order) :
                                    Rows(output)[i][key] # NoneValue} :
                column_width' =
                    WidthOfRow(WidthOfRows(column_width, SubSeq(Rows(output), 1, i - 1),
                                           output_order),
                               Pop(Rows(output)[i], (DOMAIN Rows(output)[i]) \ done),
                               output_order)
    /\ opc' = "raised"
    /\ UNCHANGED <<asmVars, report, where_output_filter, output, output_filter, todo,
                   config, output_order, separator_len, printed,
                   auxVars>>

\* print self.separator
PrintSeparator ==
    /\ opc = "print"
    /\ printed' = <<Line("separator", 0, <<>>, separator_len)>>
    /\ opc' = "items"
    /\ UNCHANGED <<asmVars, report, where_output_filter, output, output_filter, todo,
                   config, output_order, column_width, separator_len,
                   auxVars>>

\* the keys of output_order that the mapping has, in that order (order_dict)
OrderedKeys(order, mapping) ==
    LET Has(key) == key \in DOMAIN mapping IN SelectSeq(order, Has)

\* print_hca_info: one line per field, in the order of output_order; an
\* empty line when no field is left
HcaInfoLines(k, hca_info, order) ==
    LET keys == OrderedKeys(order, hca_info)
    IN  IF keys = <<>> THEN <<Line("hca_info", k, <<>>, 0)>>
        ELSE [n \in 1..Len(keys) |->
                 Line("hca_info", k, <<[name |-> keys[n], text |-> hca_info[keys[n]]]>>, 0)]

\* BdfDevicesLines that prints the header and its separator before every row
BdfDevicesLines_HeaderEachRow(k, bdf_devices, order, cw, seplen) ==
    LET keys == OrderedKeys(order, bdf_devices[1])
        Cells(n) == [c \in 1..Len(keys) |->
                        [name |-> keys[c], text |-> bdf_devices[n][keys[c]]]]
        Names == [c \in 1..Len(keys) |-> [name |-> keys[c], text |-> <<keys[c]>>]]
        Widths == SumOf(cw, Range(keys))
    IN  Flatten([n \in 1..Len(bdf_devices) |->
                    <<Line("header", k, Names, Widths), Line("separator", k, <<>>, seplen),
                      Line("row", k, Cells(n), Widths)>>])

\* print_bdf_devices: the header and a separator before the first row,
\* then one row per device; a cell is centered in its column's width
BdfDevicesLines(k, bdf_devices, order, cw, seplen) ==
    LET keys == OrderedKeys(order, bdf_devices[1])
        Cells(n) == [c \in 1..Len(keys) |->
                        [name |-> keys[c], text |-> bdf_devices[n][keys[c]]]]
        Names == [c \in 1..Len(keys) |-> [name |-> keys[c], text |-> <<keys[c]>>]]
        Widths == SumOf(cw, Range(keys))
    IN  <<Line("header", k, Names, Widths), Line("separator", k, <<>>, seplen)>>
        \o [n \in 1..Len(bdf_devices) |-> Line("row", k, Cells(n), Widths)]

\* the items that have been printed
ItemsPrinted == MaxOf({0} \cup {printed[n].item : n \in 1..Len(printed)})

\* one turn of "for output_key in self.output"
PrintItem ==
    /\ opc = "items"
    /\ ItemsPrinted < Len(output)
    /\ LET k == ItemsPrinted + 1
       IN  printed' = printed
               \o HcaInfoLines(k, output[k].hca_info, output_order)
               \o <<Line("separator", k, <<>>, separator_len)>>
               \o BdfDevicesLines(k, output[k].bdf_devices, output_order, column_width,
                                  separator_len)
               \o <<Line("separator", k, <<>>, separator_len)>>
    /\ UNCHANGED <<asmVars, report, where_output_filter, output, output_filter, todo, opc,
                   config, output_order, column_width, separator_len,
                   auxVars>>

\* the loop over self.output has ended
PrintEnd ==
    /\ opc = "items"
    /\ ItemsPrinted = Len(output)
    /\ opc' = "done"
    /\ UNCHANGED <<asmVars, report, where_output_filter, output, output_filter, todo,
                   config, output_order, column_width, separator_len, printed,
                   auxVars>>

NextPrint ==
    \/ WhereReturn
    \/ WhereParse
    \/ WhereValueError
    \/ WherePass
    \/ WhereTypeError
    \/ WhereDone
    \/ ApplySelect
    \/ PrintJson
    \/ Measure
    \/ MeasureTypeError
    \/ PrintSeparator
    \/ PrintItem
    \/ PrintEnd

SpecPrint == InitPrint /\ [][NextPrint]_vars

\* a second call of apply_select_output_filters on the same Output object
ApplySelectAgain ==
    /\ opc = "format"
    /\ output_order' = SelectedOrder(output_order, config.output_fields_filter_positive,
                                     config.output_fields_filter_negative)
    /\ output' = SelectOutput(output, output_order')
    /\ opc' = "selected_twice"
    /\ UNCHANGED <<asmVars, report, where_output_filter, output_filter, todo,
                   config, column_width, separator_len, printed,
                   auxVars>>

\* an Output object that holds the report, before a call of
\* apply_select_output_filters
InitSelect ==
    /\ mlnx_bdf_devices = <<>>
    /\ mlnxHCAs = <<>>
    /\ pc = NotModelled
    /\ idx = 1
    /\ config \in Configs
    /\ report \in PrintReports(config.output_view)
    /\ where_output_filter = <<>>
    /\ output = report
    /\ output_filter = <<>>
    /\ todo = {}
    /\ opc = "select"
    /\ output_order = output_order_general[config.output_view]
    /\ column_width = <<>>
    /\ separator_len = 0
    /\ printed = <<>>
    /\ AuxIdle

NextSelect ==
    \/ ApplySelect
    \/ ApplySelectAgain

SpecSelect == InitSelect /\ [][NextSelect]_vars

(***************************************************************************)
(* Properties of the field selection and of the table.                     *)
(***************************************************************************)
\* the selected field set: the positive list, else the default order of the
\* view without the names of the negative list
SelectedSet ==
    IF config.output_fields_filter_positive # <<>>
    THEN Range(config.output_fields_filter_positive)
    ELSE Range(output_order_general[config.output_view])
            \ Range(config.output_fields_filter_negative)

\* the mapping after is the mapping before, cut down to the selected set
CutDown(before, after) ==
    /\ DOMAIN after = (DOMAIN before) \cap SelectedSet
    /\ \A key \in DOMAIN after : after[key] = before[key]

\* C12: apply_select_output_filters leaves in self.output_order the
\* positive list when it is non-empty, else the default order of the view
\* minus the names of the negative list; after it every key of every
\* adapter-level and device-level mapping is in the selected set, and
\* every selected key that was there before is still there with its value.
C12_OnlySelectedFieldsStay ==
    [][(opc = "select" /\ opc' = "format") =>
        /\ Range(output_order') = SelectedSet
        /\ Len(output') = Len(output)
        /\ \A k \in 1..Len(output) :
              /\ CutDown(output[k].hca_info, output'[k].hca_info)
              /\ Len(output'[k].bdf_devices) = Len(output[k].bdf_devices)
              /\ \A i \in 1..Len(output[k].bdf_devices) :
                    CutDown(output[k].bdf_devices[i], output'[k].bdf_devices[i])
    ]_vars

\* C12, reached: the positive list Dev,Net, given with no negative list, has
\* left Dev of the adapter fields Dev,SN and Net of the device fields
C12_Witness ==
    /\ opc = "format"
    /\ config.output_fields_filter_positive = <<"Dev", "Net">>
    /\ Len(output) = 2
    /\ DOMAIN report[1].hca_info = {"Dev", "SN"}
    /\ \A k \in 1..2 :
          /\ DOMAIN output[k].hca_info = {"Dev"}
          /\ output[k].hca_info.Dev = report[k].hca_info.Dev
          /\ \A i \in 1..Len(output[k].bdf_devices) :
                DOMAIN output[k].bdf_devices[i] = {"Net"}

\* C13: a second call of apply_select_output_filters, with the same lists,
\* leaves the report items and the output order as the first call left them.
C13_SelectTwiceIsSelectOnce ==
    [][(opc = "format" /\ opc' = "selected_twice") =>
        (output' = output /\ output_order' = output_order)]_vars

\* C13, reached: two calls with a negative list that took fields away
C13_Witness ==
    /\ opc = "selected_twice"
    /\ config.output_fields_filter_positive = <<>>
    /\ config.output_fields_filter_negative = <<"State", "Foo">>
    /\ Len(output) = 2
    /\ output # report
    /\ output_order = <<"Dev", "SN", "Net">>

\* the n-th predicate string is the last one given for its field
Applied(n) ==
    \A m \in (n + 1)..Len(where_output_filter) :
        FieldPart(where_output_filter[m]) # FieldPart(where_output_filter[n])

\* the mapping, as it is in the report, passes every applied predicate on a
\* field it has
PassesFilter(mapping) ==
    \A n \in 1..Len(where_output_filter) :
        (Applied(n) /\ Carries(mapping, FieldPart(where_output_filter[n])))
        => MatchesAtStart(RegexPart(where_output_filter[n]),
                          ValueOf(mapping, FieldPart(where_output_filter[n])))

\* the report items that the predicates keep, with the devices they keep
FilteredReport ==
    LET kept == [k \in 1..Len(report) |->
                    [hca_info |-> report[k].hca_info,
                     bdf_devices |-> SelectSeq(report[k].bdf_devices, PassesFilter)]]
        Stays(item) == item.bdf_devices # <<>> /\ PassesFilter(item.hca_info)
    IN  SelectSeq(kept, Stays)

\* the mapping without the fields that are not selected
Selected(mapping) == [key \in (DOMAIN mapping) \cap SelectedSet |-> mapping[key]]

\* C14: on both rendering paths (table and JSON) the where-predicates have
\* been applied before the field selection: what is rendered is the report
\* filtered by every predicate on the values the report had, also for the
\* fields that the selection has taken out, and then cut down to the
\* selected fields.
C14_WhereBeforeSelect ==
    opc \in {"format", "print", "items", "done"} =>
        output = [k \in 1..Len(FilteredReport) |->
                     [hca_info |-> Selected(FilteredReport[k].hca_info),
                      bdf_devices |->
                          [i \in 1..Len(FilteredReport[k].bdf_devices) |->
                              Selected(FilteredReport[k].bdf_devices[i])]]]

\* C14, reached: the JSON dump of a run with -ow State=ad -o Dev Net, in
\* which the first adapter has lost its device with State "a" although no
\* mapping shows State any more
C14_Witness ==
    /\ opc = "done"
    /\ config.output_format = "json"
    /\ where_output_filter = <<Pred("State", <<"a", "d">>)>>
    /\ config.output_fields_filter_positive = <<"Dev", "Net">>
    /\ Len(report) = 2
    /\ Len(report[1].bdf_devices) = 2
    /\ report[1].bdf_devices[1].State = <<"a">>
    /\ report[1].bdf_devices[2].State = <<"a", "d">>
    /\ report[2].bdf_devices[1].State = <<"a">>
    /\ Len(output) = 1
    /\ output[1].bdf_devices = <<[Net |-> report[1].bdf_devices[2].Net]>>
    /\ printed = <<Line("json", 0, output, 0)>>

\* f maps 1..n to places that grow with the index
Increasing(f, n) == \A a, b \in 1..n : a < b => f[a] < f[b]

\* every field the mapping still has is a field of the original mapping,
\* with the original value
FieldsKept(mapping, original) ==
    /\ DOMAIN mapping \subseteq DOMAIN original
    /\ \A key \in DOMAIN mapping : mapping[key] = original[key]

\* the devices are devices of the original sequence, in their order
DevicesKept(devices, originals) ==
    \E g \in [1..Len(devices) -> 1..Len(originals)] :
       /\ Increasing(g, Len(devices))
       /\ \A i \in 1..Len(devices) : FieldsKept(devices[i], originals[g[i]])

\* C23: after every turn of a where-predicate and after the field
\* selection the adapter items are items of the report in their original
\* order; each has the Dev index of its place in the report (when Dev is
\* still among its fields), its device records are records of its original
\* device sequence in their order, and every field that is left has the
\* value it had.
C23_FilteringOnlyRemoves ==
    \E f \in [1..Len(output) -> 1..Len(report)] :
       /\ Increasing(f, Len(output))
       /\ \A j \in 1..Len(output) :
             /\ FieldsKept(output[j].hca_info, report[f[j]].hca_info)
             /\ "Dev" \in DOMAIN output[j].hca_info
                   => output[j].hca_info.Dev = hca_index(f[j])
             /\ DevicesKept(output[j].bdf_devices, report[f[j]].bdf_devices)

\* C23, reached: the where-filter has removed the first adapter item, the
\* selection has cut the fields down to Dev and Net, and the item that is
\* left is still #2
C23_Witness ==
    /\ opc = "done"
    /\ where_output_filter # <<>>
    /\ config.output_fields_filter_positive = <<"Dev", "Net">>
    /\ Len(report) = 2
    /\ Len(output) = 1
    /\ output[1].hca_info = [Dev |-> hca_index(2)]
    /\ output[1].bdf_devices = <<[Net |-> report[2].bdf_devices[1].Net]>>

\* the device rows of the surviving items, and the fields that are rendered
RenderedRows == {Rows(output)[i] : i \in 1..Len(Rows(output))}
RenderedFields == UNION {(DOMAIN row) \cap Range(output_order) : row \in RenderedRows}

\* the rows, taken in the order pi
Permuted(rows, pi) == [i \in 1..Len(rows) |-> rows[pi[i]]]

\* C18: in tabular mode, after the width pass, column_width has one entry
\* per rendered field, equal to the largest of the length of the field name
\* and the lengths of the field's values over all device rows of all
\* surviving items; visiting the rows in any other order gives the same.
C18_ColumnWidthIsMax ==
    (opc \in {"print", "items", "done"} /\ config.output_format = "human_readable") =>
        /\ DOMAIN column_width = RenderedFields
        /\ \A key \in RenderedFields :
              column_width[key] =
                  MaxOf({NameLen[key]} \cup {Len(row[key]) : row \in RenderedRows})
        /\ \A pi \in Permutations(1..Len(Rows(output))) :
              WidthOfRows(<<>>, Permuted(Rows(output), pi), output_order) = column_width

\* C18, reached: three rows whose Net is "eth0", then "e", then "eth0": the
\* column Net is 4 wide and the column State is as wide as its name
C18_Witness ==
    /\ opc = "print"
    /\ Len(Rows(output)) = 3
    /\ Rows(output)[1].Net = <<"e", "t", "h", "0">>
    /\ Rows(output)[2].Net = <<"e">>
    /\ Rows(output)[3].Net = <<"e", "t", "h", "0">>
    /\ column_width.Net = 4
    /\ column_width.State = 5

\* the width of the adapter summary: the longest "name: value" line
SummaryWidth ==
    MaxOf({0} \cup {NameLen[key] + Len(output[k].hca_info[key]) + 5 :
                       <<k, key>> \in {<<k, key>> \in (1..Len(output)) \X DOMAIN NameLen :
                                          key \in DOMAIN output[k].hca_info}})
\* the number of rendered columns and the sum of their widths
ColumnCount == Cardinality(DOMAIN column_width)
ColumnSum == SumOf(column_width, DOMAIN column_width)

\* C19, as stated: in tabular mode with n rendered columns the separator is
\* as long as the larger of (sum of the column widths) + 3*(n-1) - 2 and
\* the adapter-summary width.
C19_SeparatorCountsJoins ==
    (opc \in {"print", "items", "done"} /\ config.output_format = "human_readable") =>
        separator_len =
            MaxOf({ColumnSum + 3 * (ColumnCount - 1) - 2, SummaryWidth})

\* C19, amended: in tabular mode with n rendered columns the separator is
\* as long as the larger of (sum of the column widths) + 3*n - 2 and the
\* adapter-summary width.
C19_SeparatorCountsColumns ==
    (opc \in {"print", "items", "done"} /\ config.output_format = "human_readable") =>
        separator_len = MaxOf({ColumnSum + 3 * ColumnCount - 2, SummaryWidth})

\* C19, reached: the columns Net (4 wide) and State (5 wide) give a table
\* width of 4 + 5 + 3*2 - 2 = 13, more than the summary line "#1" of Dev
C19_Witness ==
    /\ opc = "print"
    /\ DOMAIN column_width = {"Net", "State"}
    /\ column_width.Net = 4
    /\ column_width.State = 5
    /\ SummaryWidth = 10
    /\ separator_len = 13

\* the kinds of the lines of the k-th surviving item
BlockKinds(k) ==
    LET shown == (DOMAIN output[k].hca_info) \cap Range(output_order)
        summary == IF shown = {} THEN 1 ELSE Cardinality(shown)
    IN  [n \in 1..summary |-> "hca_info"]
        \o <<"separator", "header", "separator">>
        \o [n \in 1..Len(output[k].bdf_devices) |-> "row"]
        \o <<"separator">>
\* the lines of the k-th item that are of the kind
LinesOf(k, kind) ==
    LET Is(line) == line.item = k /\ line.kind = kind IN SelectSeq(printed, Is)

\* C20: the table is one separator line, then for each surviving item, in
\* the order of the items: its summary lines, a separator, the header row
\* once, a separator, one row per device record in the order of the device
\* sequence, and a closing separator; the lines of an item are contiguous.
C20_TableLayout ==
    (opc = "done" /\ config.output_format = "human_readable") =>
        /\ [n \in 1..Len(printed) |-> printed[n].kind]
              = <<"separator">> \o Flatten([k \in 1..Len(output) |-> BlockKinds(k)])
        /\ [n \in 1..Len(printed) |-> printed[n].item]
              = <<0>> \o Flatten([k \in 1..Len(output) |->
                                     [n \in 1..Len(BlockKinds(k)) |-> k]])
        /\ \A n \in 1..Len(printed) :
              printed[n].kind = "separator" => printed[n].width = separator_len
        /\ \A k \in 1..Len(output) :
              /\ Len(LinesOf(k, "row")) = Len(output[k].bdf_devices)
              /\ \A n \in 1..Len(output[k].bdf_devices) :
                    LET cells == LinesOf(k, "row")[n].cells IN
                    /\ {cells[c].name : c \in 1..Len(cells)} = DOMAIN output[k].bdf_devices[n]
                    /\ \A c \in 1..Len(cells) :
                          cells[c].text = output[k].bdf_devices[n][cells[c].name]

\* C20, reached: a table of two adapters, the first with two devices that
\* differ: 1 + (2 + 1 + 1 + 1 + 2 + 1) + (2 + 1 + 1 + 1 + 1 + 1) lines
C20_Witness ==
    /\ opc = "done"
    /\ config.output_format = "human_readable"
    /\ Len(output) = 2
    /\ Len(output[1].bdf_devices) = 2
    /\ output[1].bdf_devices[1] # output[1].bdf_devices[2]
    /\ DOMAIN output[1].hca_info = {"Dev", "SN"}
    /\ Len(printed) = 16

(***************************************************************************)
(* The warning and error markers.  Config.process_arguments decides        *)
(* whether they are shown; SYSFSDevice, PCIDevice, MiscCMDs.get_tempr and  *)
(* the sriov property put them on the values of one device.  A value is a  *)
(* sequence of pieces; a marker is the last piece of a value.              *)
(***************************************************************************)
warning_sign == "*"
error_sign == " >!<"
\* the thresholds of get_tempr
TemprError == 90
TemprWarning == 80
\* what mget_temp says: no reading, or a number of degrees
TemprReadings ==
    {[found |-> FALSE, degrees |-> 0]}
    \cup {[found |-> TRUE, degrees |-> d] :
             d \in {TemprWarning, TemprWarning + 1, TemprError, TemprError + 1}}
LinkWidths == {"x8", "x16"}

\* --json, sys.stdout.isatty() and Config.override__set_tty_exists, which
\* the program leaves False
Arguments == [json : BOOLEAN, isatty : BOOLEAN, override__set_tty_exists : {FALSE}]

\* one device, as sysfs, lspci and mget_temp show it
Hardware ==
    [state : {"down", "actv"}, lnkCapWidth : LinkWidths, lnkStaWidth : LinkWidths,
     tempr : TemprReadings, sriov : {"PF", "VF"}, virtual_function : BOOLEAN]

InitMarkers ==
    /\ AsmIdle
    /\ OutIdle
    /\ config = NotModelled
    /\ output_order = <<>>
    /\ column_width = <<>>
    /\ separator_len = 0
    /\ printed = <<>>
    /\ CacheIdle
    /\ ProbeIdle
    /\ MstIdle
    /\ args \in Arguments
    /\ hw \in Hardware
    /\ show_warnings_and_errors = TRUE
    /\ fields = [Rate |-> <<>>, LnkCapWidth |-> <<>>, LnkStaWidth |-> <<>>,
                 Tempr |-> <<>>, SRIOV |-> <<>>]
    /\ mpc = "process_arguments"

othVars == <<asmVars, outVars, prtVars, cacheVars, probeVars, mstVars>>

\* Config.process_arguments
ProcessArguments ==
    /\ mpc = "process_arguments"
    /\ show_warnings_and_errors' =
          IF args.json THEN FALSE
          ELSE IF ~args.isatty /\ ~args.override__set_tty_exists THEN FALSE
          ELSE show_warnings_and_errors
    /\ mpc' = "sysfs"
    /\ UNCHANGED <<args, hw, fields, othVars>>

\* SYSFSDevice.__init__: the port rate, with the warning sign when the port is down
SYSFSDeviceInit ==
    /\ mpc = "sysfs"
    /\ fields' = [fields EXCEPT !.Rate =
                     IF hw.state = "down" /\ show_warnings_and_errors
                     THEN <<"100", warning_sign>> ELSE <<"100">>]
    /\ mpc' = "pci"
    /\ UNCHANGED <<args, hw, show_warnings_and_errors, othVars>>

\* the number of lanes a width such as x16 names
Lanes(width) == IF width = "x8" THEN 8 ELSE 16

\* PCIDevice.__init__ that puts the error sign only on a status width with
\* fewer lanes than the capability width
PCIDeviceInit_FewerLanesOnly ==
    /\ mpc = "pci"
    /\ fields' = [fields EXCEPT
                     !.LnkStaWidth =
                         IF Lanes(hw.lnkCapWidth) > Lanes(hw.lnkStaWidth)
                            /\ show_warnings_and_errors
                         THEN <<hw.lnkStaWidth, error_sign>> ELSE <<hw.lnkStaWidth>>,
                     !.LnkCapWidth = <<hw.lnkCapWidth, " G", "3">>]
    /\ mpc' = "tempr"
    /\ UNCHANGED <<args, hw, show_warnings_and_errors, othVars>>

\* PCIDevice.__init__: the two link widths, with the error sign on the
\* status width when they differ
PCIDeviceInit ==
    /\ mpc = "pci"
    /\ fields' = [fields EXCEPT
                     !.LnkStaWidth =
                         IF hw.lnkCapWidth # hw.lnkStaWidth /\ show_warnings_and_errors
                         THEN <<hw.lnkStaWidth, error_sign>> ELSE <<hw.lnkStaWidth>>,
                     !.LnkCapWidth = <<hw.lnkCapWidth, " G", "3">>]
    /\ mpc' = "tempr"
    /\ UNCHANGED <<args, hw, show_warnings_and_errors, othVars>>

\* MiscCMDs.get_tempr
get_tempr(reading) ==
    IF ~reading.found THEN <<"=N/A=">>
    ELSE IF reading.degrees > TemprError THEN <<ToString(reading.degrees), error_sign>>
    ELSE IF reading.degrees > TemprWarning THEN <<ToString(reading.degrees), warning_sign>>
    ELSE <<ToString(reading.degrees)>>

\* self.tempr = self.miscDevice.get_tempr()
GetTempr ==
    /\ mpc = "tempr"
    /\ fields' = [fields EXCEPT !.Tempr = get_tempr(hw.tempr)]
    /\ mpc' = "output_info"
    /\ UNCHANGED <<args, hw, show_warnings_and_errors, othVars>>

\* the MlnxBFDDevice.sriov property
sriov(show, dev) ==
    IF show /\ dev.sriov = "PF" /\ dev.virtual_function
    THEN <<dev.sriov, warning_sign>> ELSE <<dev.sriov>>

\* MlnxBFDDevice.output_info: SRIOV, padded
OutputInfo ==
    /\ mpc = "output_info"
    /\ fields' = [fields EXCEPT !.SRIOV =
                     IF sriov(show_warnings_and_errors, hw)[1] = "PF"
                     THEN sriov(show_warnings_and_errors, hw) \o <<"  ">>
                     ELSE <<"  ">> \o sriov(show_warnings_and_errors, hw)]
    /\ mpc' = "done"
    /\ UNCHANGED <<args, hw, show_warnings_and_errors, othVars>>

NextMarkers ==
    \/ ProcessArguments
    \/ SYSFSDeviceInit
    \/ PCIDeviceInit
    \/ GetTempr
    \/ OutputInfo

SpecMarkers == InitMarkers /\ [][NextMarkers]_vars

\* the value has a marker among its pieces
Marked(value) == \E n \in 1..Len(value) : value[n] \in {warning_sign, error_sign}

\* C15, as stated: when the output is JSON or does not go to a terminal, no
\* field value of the device carries a warning or an error marker, whatever
\* the link widths, the port state, the temperature and the description.
C15_NoMarkerWhenSuppressed ==
    (mpc = "done" /\ (args.json \/ ~args.isatty)) =>
        \A name \in DOMAIN fields : ~Marked(fields[name])

\* PCIDevice.__init__ has run on the device
PciDone == mpc \in {"tempr", "output_info", "done"}

\* the device goes on to its output with the status width lspci gave
StillIncluded ==
    /\ fields.LnkStaWidth # <<>>
    /\ fields.LnkStaWidth[1] = hw.lnkStaWidth
    /\ fields.LnkCapWidth[1] = hw.lnkCapWidth

\* C21, as stated: with warnings shown, the status width carries the error
\* marker only when the capability width has more lanes than the status
\* width; a status width with more lanes than the capability width is not
\* marked.  The device is kept in both cases.
C21_MarkedOnlyWhenCapabilityGreater ==
    (PciDone /\ show_warnings_and_errors) =>
        /\ Marked(fields.LnkStaWidth) <=>
               Lanes(hw.lnkCapWidth) > Lanes(hw.lnkStaWidth)
        /\ StillIncluded

\* C21, amended: with warnings shown, the status width carries the error
\* marker exactly when the capability width and the status width differ,
\* whichever of the two has more lanes.  The device is kept in every case.
C21_MarkedWhenWidthsDiffer ==
    (PciDone /\ show_warnings_and_errors) =>
        /\ Marked(fields.LnkStaWidth) <=> hw.lnkCapWidth # hw.lnkStaWidth
        /\ fields.LnkStaWidth[Len(fields.LnkStaWidth)] = error_sign
               <=> hw.lnkCapWidth # hw.lnkStaWidth
        /\ StillIncluded

\* a device whose status width has more lanes than its capability width has
\* been marked and has reached its output
C21_Witness ==
    /\ mpc = "done"
    /\ show_warnings_and_errors
    /\ Lanes(hw.lnkStaWidth) > Lanes(hw.lnkCapWidth)
    /\ fields.LnkStaWidth = <<hw.lnkStaWidth, error_sign>>

(***************************************************************************)
(* DataSource.exec_shell_cmd and its cache.  A command string and the      *)
(* output of a command are sequences of characters; running a command      *)
(* again may give another output.                                          *)
(***************************************************************************)
\* number of calls of exec_shell_cmd in a run
MaxCalls == 3
Commands == {<<"m">>, <<"m", " ", "d">>}
CommandOutputs == {<<"a">>, <<"a", "\n">>, <<"b", "\n", "a">>}
\* the pieces of a command string that are letters and digits only
Alphanumeric ==
    {"m", "d", "a", "b",
     "which", "mst", "dev", "null", "echo", "status", "grep", "c", "MST", "PCI",
     "configuration", "module", "loaded", "start", "stop", "v", "lspci", "Dd", "15b3"}

\* cmd_to_str: re.escape puts a backslash before every character that is
\* not alphanumeric
cmd_to_str(cmd) ==
    Flatten([n \in 1..Len(cmd) |->
                IF cmd[n] \in Alphanumeric THEN <<cmd[n]>> ELSE <<"\\", cmd[n]>>])

\* output.splitlines(): the pieces between the line ends, without an empty
\* piece after the last line end
RECURSIVE splitlines(_)
splitlines(text) ==
    IF text = <<>> THEN <<>>
    ELSE IF \E n \in 1..Len(text) : text[n] = "\n"
    THEN LET n == CHOOSE n \in 1..Len(text) :
                      text[n] = "\n" /\ \A m \in 1..(n - 1) : text[m] # "\n"
         IN  <<SubSeq(text, 1, n - 1)>> \o splitlines(SubSeq(text, n + 1, Len(text)))
    ELSE <<text>>

InitCache ==
    /\ AsmIdle
    /\ OutIdle
    /\ config = NotModelled
    /\ output_order = <<>>
    /\ column_width = <<>>
    /\ separator_len = 0
    /\ printed = <<>>
    /\ MrkIdle
    /\ ProbeIdle
    /\ MstIdle
    /\ cache = <<>>
    /\ calls = <<>>

\* a call of exec_shell_cmd, as the caller sees it
Call(cmd, use_cache, executed, stdout) ==
    [cmd |-> cmd, use_cache |-> use_cache, executed |-> executed,
     lines |-> splitlines(stdout)]

\* exec_shell_cmd that stores the output whether or not the cache is to be used
ExecCommand_AlwaysStores ==
    /\ Len(calls) < MaxCalls
    /\ \E cmd \in Commands, use_cache \in BOOLEAN, stdout \in CommandOutputs :
          /\ ~(use_cache /\ cmd_to_str(cmd) \in DOMAIN cache)
          /\ calls' = Append(calls, Call(cmd, use_cache, TRUE, stdout))
          /\ cache' = [key \in (DOMAIN cache) \cup {cmd_to_str(cmd)} |->
                          IF key = cmd_to_str(cmd) THEN stdout ELSE cache[key]]
    /\ UNCHANGED <<asmVars, outVars, prtVars, mrkVars, probeVars, mstVars>>

\* exec_shell_cmd, the else branch: the command is run; its output goes to
\* the cache when use_cache is True
ExecCommand ==
    /\ Len(calls) < MaxCalls
    /\ \E cmd \in Commands, use_cache \in BOOLEAN, stdout \in CommandOutputs :
          /\ ~(use_cache /\ cmd_to_str(cmd) \in DOMAIN cache)
          /\ calls' = Append(calls, Call(cmd, use_cache, TRUE, stdout))
          /\ cache' = IF use_cache
                      THEN [key \in (DOMAIN cache) \cup {cmd_to_str(cmd)} |->
                               IF key = cmd_to_str(cmd) THEN stdout ELSE cache[key]]
                      ELSE cache
    /\ UNCHANGED <<asmVars, outVars, prtVars, mrkVars, probeVars, mstVars>>

\* exec_shell_cmd, use_cache is True and the key is in the cache
ExecCached ==
    /\ Len(calls) < MaxCalls
    /\ \E cmd \in Commands :
          /\ cmd_to_str(cmd) \in DOMAIN cache
          /\ calls' = Append(calls, Call(cmd, TRUE, FALSE, cache[cmd_to_str(cmd)]))
    /\ UNCHANGED <<asmVars, outVars, prtVars, mrkVars, probeVars, mstVars, cache>>

NextCache ==
    \/ ExecCommand
    \/ ExecCached

SpecCache == InitCache /\ [][NextCache]_vars

\* C16: among the calls with caching enabled, a command string is executed
\* by the first call only, and every later one returns the lines of the
\* first; a call with caching disabled executes the command and leaves the
\* cache as it is; an entry of the cache is never removed and never changed.
C16_CachedCommandRunsOnce ==
    /\ [](\A j \in 1..Len(calls) :
             /\ ~calls[j].use_cache => calls[j].executed
             /\ calls[j].use_cache =>
                   \A n \in 1..(j - 1) :
                       (calls[n].use_cache /\ calls[n].cmd = calls[j].cmd)
                       => (~calls[j].executed /\ calls[j].lines = calls[n].lines))
    /\ [][/\ \A key \in DOMAIN cache : key \in DOMAIN cache' /\ cache'[key] = cache[key]
          /\ (Len(calls') > Len(calls) /\ ~calls'[Len(calls')].use_cache) => cache' = cache
         ]_vars

\* C16, reached: a command run for a cached call, run again with another
\* output for a call without caching, and a third, cached call that is
\* given the lines of the first
C16_Witness ==
    /\ Len(calls) = 3
    /\ \A n \in 1..3 : calls[n].cmd = <<"m", " ", "d">>
    /\ calls[1].use_cache /\ calls[1].executed /\ calls[1].lines = <<<<"a">>>>
    /\ ~calls[2].use_cache /\ calls[2].executed /\ calls[2].lines = <<<<"b">>, <<"a">>>>
    /\ calls[3].use_cache /\ ~calls[3].executed /\ calls[3].lines = <<<<"a">>>>
    /\ DOMAIN cache = {<<"m", "\\", " ", "d">>}

(***************************************************************************)
(* The port probing loop of HCAManager.__init__.  What sysfs shows of a    *)
(* bus address does not change during the run.                             *)
(***************************************************************************)
\* the most entries under ports/ of a bus address
MaxPorts == 2

\* SYSFSDevice.port_list: the listing of ports/, joined with " ", stripped
\* and split at " "; a missing or empty directory gives the list [""]
port_list(entries) ==
    IF entries = 0 THEN <<"">> ELSE [p \in 1..entries |-> ToString(p)]

\* MlnxBFDDevice(bdf, data_source, config, port_count), as far as the loop uses it
MlnxBFDDevice(bdf, port) ==
    [bdf |-> bdf, port |-> port, port_list |-> port_list(sysfs_ports[bdf])]

InitProbe ==
    /\ \E n \in 0..MaxBdf : sysfs_ports \in [1..n -> 0..MaxPorts]
    /\ port_count = 1
    /\ mlnx_bdf_devices = <<>>
    /\ mlnxHCAs = <<>>
    /\ pc = "probe"
    /\ idx = 1
    /\ OutIdle
    /\ config = NotModelled
    /\ output_order = <<>>
    /\ column_width = <<>>
    /\ separator_len = 0
    /\ printed = <<>>
    /\ MrkIdle
    /\ CacheIdle
    /\ MstIdle

\* a turn of "while True" that ends with port_count += 1
ProbeNextPort ==
    /\ pc = "probe"
    /\ idx <= Len(sysfs_ports)
    /\ mlnx_bdf_devices' = Append(mlnx_bdf_devices, MlnxBFDDevice(idx, port_count))
    /\ ~(port_count >= Len(MlnxBFDDevice(idx, port_count).port_list))
    /\ port_count' = port_count + 1
    /\ UNCHANGED <<mlnxHCAs, pc, idx, outVars, prtVars, mrkVars, mstVars, cacheVars, sysfs_ports>>

\* ProbeLastPort that leaves the loop whatever the port count is
ProbeLastPort_AnyPort ==
    /\ pc = "probe"
    /\ idx <= Len(sysfs_ports)
    /\ mlnx_bdf_devices' = Append(mlnx_bdf_devices, MlnxBFDDevice(idx, port_count))
    /\ idx' = idx + 1
    /\ port_count' = 1
    /\ UNCHANGED <<mlnxHCAs, pc, outVars, prtVars, mrkVars, mstVars, cacheVars, sysfs_ports>>

\* a turn of "while True" that ends with break: the next bus address, with
\* port_count = 1
ProbeLastPort ==
    /\ pc = "probe"
    /\ idx <= Len(sysfs_ports)
    /\ mlnx_bdf_devices' = Append(mlnx_bdf_devices, MlnxBFDDevice(idx, port_count))
    /\ port_count >= Len(MlnxBFDDevice(idx, port_count).port_list)
    /\ idx' = idx + 1
    /\ port_count' = 1
    /\ UNCHANGED <<mlnxHCAs, pc, outVars, prtVars, mrkVars, mstVars, cacheVars, sysfs_ports>>

\* the loop over mlnx_bdf_list has ended
ProbeEnd ==
    /\ pc = "probe"
    /\ idx > Len(sysfs_ports)
    /\ pc' = "pass1"
    /\ idx' = 1
    /\ UNCHANGED <<mlnx_bdf_devices, mlnxHCAs, outVars, prtVars, mrkVars, mstVars, cacheVars,
                   sysfs_ports, port_count>>

NextProbe ==
    \/ ProbeNextPort
    \/ ProbeLastPort
    \/ ProbeEnd

\* the loop runs on: no step of it waits for anything
SpecProbe == InitProbe /\ [][NextProbe]_vars /\ WF_vars(NextProbe)

\* the records built for the bus address
RecordsOf(bdf) ==
    LET At(dev) == dev.bdf = bdf IN SelectSeq(mlnx_bdf_devices, At)

\* C17: the probing loop ends, and it has then built for every listed bus
\* address, whose ports/ shows n entries, max(1, n) device records with the
\* port numbers 1..max(1, n) in increasing order; the records of the bus
\* addresses follow each other in the order of the listing.
C17_OneRecordPerPort ==
    /\ <>(pc = "pass1")
    /\ [](pc = "pass1" =>
            /\ \A bdf \in 1..Len(sysfs_ports) :
                  /\ Len(RecordsOf(bdf)) = MaxOf({1, sysfs_ports[bdf]})
                  /\ \A p \in 1..Len(RecordsOf(bdf)) : RecordsOf(bdf)[p].port = p
            /\ \A i, j \in 1..Len(mlnx_bdf_devices) :
                  i < j => mlnx_bdf_devices[i].bdf <= mlnx_bdf_devices[j].bdf
            /\ \A i \in 1..Len(mlnx_bdf_devices) :
                  mlnx_bdf_devices[i].bdf \in 1..Len(sysfs_ports))

\* C17, reached: three bus addresses with two, no and one entry under
\* ports/ have given four records
C17_Witness ==
    /\ pc = "pass1"
    /\ sysfs_ports = <<2, 0, 1>>
    /\ Len(mlnx_bdf_devices) = 4
    /\ mlnx_bdf_devices[2].port = 2
    /\ mlnx_bdf_devices[3].bdf = 2

(***************************************************************************)
(* MSTDevice.__init__, run once for every MlnxBFDDevice that is built.     *)
(* Every command goes through exec_shell_cmd with use_cache=True.  A       *)
(* command string is a sequence of words and signs.  The tail of the       *)
(* constructor (lines 519-529) reads mst_raw_data and the lspci lines into *)
(* the fields bdf and mst_device of the object and runs no command.        *)
(***************************************************************************)
\* number of MSTDevice objects a run constructs at most
MaxDevices == 2

WhichMst ==
    <<"which", " ", "mst", " ", "&", ">", " ", "/", "dev", "/", "null", " ", ";", " ",
      "echo", " ", "$", "?">>
MstStatusLoaded ==
    <<"mst", " ", "status", " ", "|", " ", "grep", " ", "-", "c", " ", "'",
      "MST", " ", "PCI", " ", "configuration", " ", "module", " ", "loaded", "'">>
MstStartCmd == <<"mst", " ", "start">>
MstStatusV == <<"mst", " ", "status", " ", "-", "v">>
MstStopCmd == <<"mst", " ", "stop">>
LspciMlnx == <<"lspci", " ", "-", "Dd", " ", "15b3", ":">>

\* what echo $? prints after which
ExitCodes == {<<"0", "\n">>, <<"1", "\n">>}
\* what grep -c prints, or nothing at all
Counts == {<<"0", "\n">>, <<"1", "\n">>, <<>>}
\* what mst start and mst stop print
Chatter == {<<>>, <<"a", "\n">>}

InitMst ==
    /\ AsmIdle
    /\ OutIdle
    /\ config = NotModelled
    /\ output_order = <<>>
    /\ column_width = <<>>
    /\ separator_len = 0
    /\ printed = <<>>
    /\ MrkIdle
    /\ ProbeIdle
    /\ cache = <<>>
    /\ calls = <<>>
    /\ mst_device_enabled \in BOOLEAN
    /\ mst_init_running = FALSE
    /\ mst_raw_data = <<<<"No MST data">>>>
    /\ mst_pc = "idle"
    /\ constructed = 0

mstOthVars == <<asmVars, outVars, prtVars, mrkVars, probeVars>>

\* data_source.exec_shell_cmd(cmd, use_cache) when running cmd may print
\* any of outs
ExecShellCmd(cmd, use_cache, outs) ==
    IF use_cache /\ cmd_to_str(cmd) \in DOMAIN cache
    THEN /\ calls' = Append(calls, Call(cmd, TRUE, FALSE, cache[cmd_to_str(cmd)]))
         /\ cache' = cache
    ELSE \E stdout \in outs :
            /\ calls' = Append(calls, Call(cmd, use_cache, TRUE, stdout))
            /\ cache' = IF use_cache
                        THEN [key \in (DOMAIN cache) \cup {cmd_to_str(cmd)} |->
                                 IF key = cmd_to_str(cmd) THEN stdout ELSE cache[key]]
                        ELSE cache

\* what that call of exec_shell_cmd returns
Result == calls'[Len(calls')].lines

\* the head of the constructor, with the MST source enabled
MstBegin ==
    /\ mst_pc = "idle"
    /\ constructed < MaxDevices
    /\ mst_device_enabled
    /\ mst_init_running' = FALSE
    /\ mst_raw_data' = <<<<"No MST data">>>>
    /\ mst_pc' = "which"
    /\ UNCHANGED <<mst_device_enabled, constructed, cacheVars, mstOthVars>>

\* the constructor with the MST source not enabled, or disabled by an
\* earlier device
MstDisabled ==
    /\ mst_pc = "idle"
    /\ constructed < MaxDevices
    /\ ~mst_device_enabled
    /\ mst_init_running' = FALSE
    /\ mst_raw_data' = <<<<"No MST data">>>>
    /\ constructed' = constructed + 1
    /\ UNCHANGED <<mst_device_enabled, mst_pc, cacheVars, mstOthVars>>

\* which mst: the tool is installed
MstWhichInstalled ==
    /\ mst_pc = "which"
    /\ ExecShellCmd(WhichMst, TRUE, ExitCodes)
    /\ Result = <<<<"0">>>>
    /\ mst_pc' = "status"
    /\ UNCHANGED <<mst_device_enabled, mst_init_running, mst_raw_data, constructed, mstOthVars>>

\* which mst: the tool is missing, the MST source is disabled
MstWhichMissing ==
    /\ mst_pc = "which"
    /\ ExecShellCmd(WhichMst, TRUE, ExitCodes)
    /\ Result # <<<<"0">>>>
    /\ mst_device_enabled' = FALSE
    /\ constructed' = constructed + 1
    /\ mst_pc' = "idle"
    /\ UNCHANGED <<mst_init_running, mst_raw_data, mstOthVars>>

\* mst status | grep -c ...: anything but the count 0 means the module is loaded
MstStatus ==
    /\ mst_pc = "status"
    /\ ExecShellCmd(MstStatusLoaded, TRUE, Counts)
    /\ mst_init_running' = (Result # <<<<"0">>>>)
    /\ mst_pc' = IF mst_init_running' THEN "raw" ELSE "start"
    /\ UNCHANGED <<mst_device_enabled, mst_raw_data, constructed, mstOthVars>>

\* MstStart that runs mst start without the cache
MstStart_NoCache ==
    /\ mst_pc = "start"
    /\ ExecShellCmd(MstStartCmd, FALSE, Chatter)
    /\ mst_pc' = "raw"
    /\ UNCHANGED <<mst_device_enabled, mst_init_running, mst_raw_data, constructed, mstOthVars>>

\* if not mst_init_running: mst start
MstStart ==
    /\ mst_pc = "start"
    /\ ExecShellCmd(MstStartCmd, TRUE, Chatter)
    /\ mst_pc' = "raw"
    /\ UNCHANGED <<mst_device_enabled, mst_init_running, mst_raw_data, constructed, mstOthVars>>

\* self.mst_raw_data = mst status -v
MstRaw ==
    /\ mst_pc = "raw"
    /\ ExecShellCmd(MstStatusV, TRUE, CommandOutputs)
    /\ mst_raw_data' = Result
    /\ mst_pc' = IF mst_init_running THEN "lspci" ELSE "stop"
    /\ UNCHANGED <<mst_device_enabled, mst_init_running, constructed, mstOthVars>>

\* if not mst_init_running: mst stop
MstStop ==
    /\ mst_pc = "stop"
    /\ ExecShellCmd(MstStopCmd, TRUE, Chatter)
    /\ mst_pc' = "lspci"
    /\ UNCHANGED <<mst_device_enabled, mst_init_running, mst_raw_data, constructed, mstOthVars>>

\* lspci -Dd 15b3: and the end of the constructor
MstLspci ==
    /\ mst_pc = "lspci"
    /\ ExecShellCmd(LspciMlnx, TRUE, CommandOutputs)
    /\ constructed' = constructed + 1
    /\ mst_pc' = "idle"
    /\ UNCHANGED <<mst_device_enabled, mst_init_running, mst_raw_data, mstOthVars>>

NextMst ==
    \/ MstBegin
    \/ MstDisabled
    \/ MstWhichInstalled
    \/ MstWhichMissing
    \/ MstStatus
    \/ MstStart
    \/ MstRaw
    \/ MstStop
    \/ MstLspci

SpecMst == InitMst /\ [][NextMst]_vars

\* the calls that ran the command
ExecutedAt(cmd) == {n \in 1..Len(calls) : calls[n].cmd = cmd /\ calls[n].executed}

\* which has said that the mst tool is installed
MstInstalled ==
    \E n \in 1..Len(calls) : calls[n].cmd = WhichMst /\ calls[n].lines = <<<<"0">>>>

\* what the count of loaded MST PCI modules has said
ReportedNotLoaded ==
    \E n \in 1..Len(calls) :
       calls[n].cmd = MstStatusLoaded /\ calls[n].lines = <<<<"0">>>>
ReportedLoaded ==
    \E n \in 1..Len(calls) :
       calls[n].cmd = MstStatusLoaded /\ calls[n].lines # <<<<"0">>>>

\* C24: with the MST source enabled and the tool installed, at every point
\* of a run each of mst start, mst status -v and mst stop has been executed
\* at most once, mst start only when the module was reported not loaded,
\* mst stop only after mst status -v and that only after mst start when
\* there was one, and neither start nor stop when the module was reported
\* loaded; once a device is constructed, mst status -v has been executed,
\* and mst start and mst stop have been executed if the module was reported
\* not loaded, whatever the number of devices.
C24_MstStartStatusStopOnce ==
    /\ \A cmd \in {MstStartCmd, MstStatusV, MstStopCmd} : Cardinality(ExecutedAt(cmd)) <= 1
    /\ ExecutedAt(MstStartCmd) # {} => ReportedNotLoaded
    /\ ExecutedAt(MstStopCmd) # {} =>
          /\ ExecutedAt(MstStartCmd) # {}
          /\ ExecutedAt(MstStatusV) # {}
    /\ \A a \in ExecutedAt(MstStartCmd), r \in ExecutedAt(MstStatusV) : a < r
    /\ \A r \in ExecutedAt(MstStatusV), o \in ExecutedAt(MstStopCmd) : r < o
    /\ ExecutedAt(MstStatusV) # {} => (ReportedNotLoaded <=> ExecutedAt(MstStartCmd) # {})
    /\ ReportedLoaded => ExecutedAt(MstStartCmd) = {} /\ ExecutedAt(MstStopCmd) = {}
    /\ (mst_pc = "idle" /\ constructed >= 1 /\ MstInstalled) =>
          /\ ExecutedAt(MstStatusV) # {}
          /\ ReportedNotLoaded <=> ExecutedAt(MstStartCmd) # {}
          /\ ExecutedAt(MstStartCmd) # {} <=> ExecutedAt(MstStopCmd) # {}

\* C24, reached: two devices have been constructed with the module not
\* loaded; the first ran start, status -v and stop, the second was given
\* all three from the cache
C24_Witness ==
    /\ mst_pc = "idle"
    /\ constructed = 2
    /\ Len(calls) = 12
    /\ ReportedNotLoaded
    /\ ExecutedAt(MstStartCmd) = {3}
    /\ ExecutedAt(MstStatusV) = {4}
    /\ ExecutedAt(MstStopCmd) = {5}
    /\ calls[9].cmd = MstStartCmd
    /\ calls[11].cmd = MstStopCmd

====
